---- MODULE Spec2Model ----
(***************************************************************************)
(* Model of the asynchronous extraction orchestration of invoice-lab:      *)
(*   - ResultStorage   (result-storage.ts): per-id record files + index    *)
(*   - MCPProcessor    (mcp-processor.ts): the JSON-RPC orchestration      *)
(*   - MCPClient       (mcp-client.ts): initialize / tools/call            *)
(*   - ChaintrustClient / SmartScanClient pollForResults: the two pollers  *)
(*   - POST /process-api (index.ts): the Task-Poll request handler         *)
(* Every await of the source is a step boundary: what the code does        *)
(* between two awaits is one atomic action.  Disk writes of the store are  *)
(* taken to succeed; reads of the upload directory and every network call  *)
(* may fail.  MaxJobs calls of processInvoice run concurrently.            *)
(* Specifications:                                                         *)
(*   Spec           POST /process-mcp: validation and processInvoice       *)
(*   SpecSession    one MCPClient instance, callTool invoked repeatedly    *)
(*   SpecStore      callers of ResultStorage, each call awaited            *)
(*   SpecStoreConc  two orchestrations and a deleting client, interleaved  *)
(*   SpecPoll       one call through a polling adapter                     *)
(*   SpecPollFair   the same, every request answered, every timer firing   *)
(*   SpecPollTimers the same, only timers firing                           *)
(*   SpecRequest    one request of either kind                             *)
(***************************************************************************)
EXTENDS Integers, Sequences, FiniteSets, TLC

\* ------------------------------------------------------------------ bounds
MaxJobs == 1
MaxClock == 1
MaxClients == 2
MaxCalls == 3         \* callTool invocations on one MCPClient instance
MaxStoreCalls == 4    \* saveResult / deleteResult calls of one run

\* ------------------------------------------------------------- input sets
Jobs == 1..MaxJobs
\* the callers of ResultStorage other than a processInvoice call in progress
Clients == 1..MaxClients
Ids == Jobs \cup Clients
Filenames == {"inv-001.pdf", "missing.pdf"}
Uploaded == {"inv-001.pdf", "notes.txt"}
ConfigIds == {"cfg-mcp"}
ClientInfos == {"VAT1/Acme/FI", "VAT2/Beta/SE"}
Payloads == {"P1"}

Absent == "absent"
Unset == -1

\* ProcessingResult (mcp-client.ts): optional fields hold Absent / Unset
NoRec == [status |-> "none"]

InitialRecord(id, filename, configId, clientInfo, t) ==
  [id |-> id, filename |-> filename, configId |-> configId,
   clientInfo |-> clientInfo, status |-> "processing", createdAt |-> t,
   result |-> Absent, error |-> Absent, completedAt |-> Unset,
   duration |-> Unset, mcpResponse |-> Absent]

CompletedRecord(r, resp, t, start) ==
  [r EXCEPT !.status = "completed", !.result = resp, !.completedAt = t,
            !.duration = t - start, !.mcpResponse = resp]

\* mutant: the catch block forgets error.message
FailedRecord_NoMessage(r, msg, t, start) ==
  [r EXCEPT !.status = "failed", !.completedAt = t, !.duration = t - start]

\* mutant: the catch block stamps the failed record with a new createdAt
FailedRecord_Restamped(r, msg, t, start) ==
  [r EXCEPT !.status = "failed", !.error = msg, !.createdAt = t,
            !.completedAt = t, !.duration = t - start]

FailedRecord(r, msg, t, start) ==
  [r EXCEPT !.status = "failed", !.error = msg, !.completedAt = t,
            !.duration = t - start]

Terminal == {"completed", "failed", "timeout"}

\* ---------------------------------------------------------------- helpers
RECURSIVE SelectSeqBy(_, _)
\* Array.prototype.filter(r => r.id !== id)
SelectSeqBy(s, id) ==
  IF s = <<>> THEN <<>>
  ELSE IF Head(s).id # id THEN <<Head(s)>> \o SelectSeqBy(Tail(s), id)
       ELSE SelectSeqBy(Tail(s), id)

RECURSIVE InsertNewestFirst(_, _)
\* one step of a stable sort on (b.createdAt - a.createdAt): x goes behind
\* every element that is at least as new
InsertNewestFirst(s, x) ==
  IF s = <<>> THEN <<x>>
  ELSE IF Head(s).createdAt >= x.createdAt
       THEN <<Head(s)>> \o InsertNewestFirst(Tail(s), x)
       ELSE <<x>> \o s

\* mutant: the array is left in insertion order
SortNewestFirst_Unsorted(s) == s

RECURSIVE SortNewestFirst(_)
\* Array.prototype.sort((a, b) => time(b.createdAt) - time(a.createdAt)), stable
SortNewestFirst(s) ==
  IF s = <<>> THEN <<>>
  ELSE InsertNewestFirst(SortNewestFirst(SubSeq(s, 1, Len(s) - 1)), s[Len(s)])

\* the index document: a sequence of buckets in key insertion order
HasBucket(idx, f) == \E k \in DOMAIN idx : idx[k].name = f

Bucket(idx, f) ==
  IF HasBucket(idx, f)
  THEN idx[CHOOSE k \in DOMAIN idx : idx[k].name = f].items
  ELSE <<>>

\* updateIndex, lines 75-86, on the index object read at line 69
updateIndex(idx, result) ==
  LET withBucket == IF HasBucket(idx, result.filename) THEN idx
                    ELSE Append(idx, [name |-> result.filename, items |-> <<>>])
  IN [k \in DOMAIN withBucket |->
        IF withBucket[k].name = result.filename
        THEN [name |-> result.filename,
              items |-> SortNewestFirst(
                          Append(SelectSeqBy(withBucket[k].items, result.id), result))]
        ELSE withBucket[k]]

RECURSIVE pruneIndex_KeepsEmpty(_, _)
\* mutant: a bucket the removal empties stays in the index
pruneIndex_KeepsEmpty(idx, id) ==
  IF idx = <<>> THEN <<>>
  ELSE <<[name |-> Head(idx).name, items |-> SelectSeqBy(Head(idx).items, id)]>>
         \o pruneIndex_KeepsEmpty(Tail(idx), id)

RECURSIVE pruneIndex(_, _)
\* deleteResult, lines 111-116
pruneIndex(idx, id) ==
  IF idx = <<>> THEN <<>>
  ELSE LET items == SelectSeqBy(Head(idx).items, id)
       IN IF Len(items) = 0 THEN pruneIndex(Tail(idx), id)
          ELSE <<[name |-> Head(idx).name, items |-> items]>> \o pruneIndex(Tail(idx), id)

RECURSIVE Flatten(_)
Flatten(idx) ==
  IF idx = <<>> THEN <<>> ELSE Head(idx).items \o Flatten(Tail(idx))

VARIABLES
  now,          \* Date.now()
  files,        \* processing-<id>.json, per id
  indexExists,  \* index.json exists
  index,        \* content of index.json
  pc,           \* MCPProcessor.processInvoice: position of each call
  rec,          \* the local `result` of each call
  startTime,    \* the local `startTime`
  saving,       \* argument of the saveResult in progress
  after,        \* where the call continues after the saveResult in progress
  idxLocal,     \* the local `index` of the updateIndex in progress
  initialized,  \* MCPClient.initialized
  requestId,    \* MCPClient.requestId
  err,          \* the caught error (message)
  outcome,      \* what the call returned or threw
  log,          \* history: the I/O each call has performed, in order
  dpc,          \* deleteResult: position
  did,          \* deleteResult: the id
  dIdx,         \* deleteResult: the local `index`
  dret,         \* deleteResult: last return value
  cpc,          \* a store client's saveResult call: position
  crec,         \* the record the client passed to its latest saveResult
  cIdx,         \* the local `index` of the client's updateIndex in progress
  lastCall,     \* history: the store call begun most recently
  overlapped,   \* history: a store call began while another was in progress
  removed,      \* history: per id, the status of the record deleteResult unlinked last
  apc,          \* polling adapter call: position
  akind,        \* "task" (POST /process-api, Chaintrust) or "txn" (SmartScan)
  afile,        \* its filename
  attempt,      \* pollForResults: the loop variable
  delayMs,      \* pollForResults: the delay being slept
  aresponse,    \* what the call answered: a response, a return value or a throw
  submitted,    \* content type of the submit request sent, "none" before
  submitCalls,  \* history: submit requests sent
  statusCalls,  \* history: status requests sent
  resultSent,   \* history: a result request was sent in the current attempt
  sleptAfter,   \* history: the attempt after which the latest sleep began
  lastResp,     \* history: what the latest status/result request produced
  allPending,   \* history: every status request so far reported still-pending
  failedAt,     \* history: statusCalls when the provider first reported failed
  prevDelay,     \* history: the delay of the sleep that ended last
  mpc,          \* one MCPClient instance: position of its callTool
  mInitialized, \* its `initialized`
  mRequestId,   \* its `requestId`
  mCalls,       \* callTool invocations begun on it
  mLog          \* history: what the instance sent and how each call ended

storeVars == <<files, indexExists, index>>
mcpVars == <<pc, rec, startTime, saving, after, idxLocal, initialized,
             requestId, err, outcome, log>>
delVars == <<dpc, did, dIdx, dret>>
cliVars == <<cpc, crec, cIdx>>
histVars == <<lastCall, overlapped, removed>>
apiVars == <<apc, akind, afile, attempt, delayMs, aresponse, submitted,
             submitCalls, statusCalls, resultSent, sleptAfter, lastResp,
             allPending, failedAt, prevDelay>>
sesVars == <<mpc, mInitialized, mRequestId, mCalls, mLog>>
vars == <<now, storeVars, mcpVars, delVars, cliVars, histVars, apiVars, sesVars>>

\* ------------------------------------------------------- store read side
\* mutant: the lookup goes through the index instead of the per-id file
getResult_FromIndex(id) ==
  LET hits == SelectSeq(IF indexExists THEN Flatten(index) ELSE <<>>,
                        LAMBDA r : r.id = id)
  IN IF hits = <<>> THEN NoRec ELSE hits[1]

getResult(id) == IF files[id].status = "none" THEN NoRec ELSE files[id]

getResultsByFilename(f) == IF indexExists THEN Bucket(index, f) ELSE <<>>

getAllResults == IF indexExists THEN SortNewestFirst(Flatten(index)) ELSE <<>>

\* ------------------------------------------------------------------- Init
Init ==
  /\ now = 0
  /\ files = [i \in Ids |-> NoRec]
  /\ indexExists = FALSE
  /\ index = <<>>
  /\ pc = [j \in Jobs |-> "idle"]
  /\ rec = [j \in Jobs |-> NoRec]
  /\ startTime = [j \in Jobs |-> 0]
  /\ saving = [j \in Jobs |-> NoRec]
  /\ after = [j \in Jobs |-> "idle"]
  /\ idxLocal = [j \in Jobs |-> <<>>]
  /\ initialized = [j \in Jobs |-> FALSE]
  /\ requestId = [j \in Jobs |-> 0]
  /\ err = [j \in Jobs |-> Absent]
  /\ outcome = [j \in Jobs |-> [kind |-> "none"]]
  /\ log = [j \in Jobs |-> <<>>]
  /\ dpc = "idle"
  /\ did = 0
  /\ dIdx = <<>>
  /\ dret = "none"
  /\ cpc = [c \in Clients |-> "idle"]
  /\ crec = [c \in Clients |-> NoRec]
  /\ cIdx = [c \in Clients |-> <<>>]
  /\ lastCall = [op |-> "none", id |-> 0, same |-> FALSE, n |-> 0]
  /\ overlapped = FALSE
  /\ removed = [i \in Ids |-> "none"]
  /\ apc = "idle"
  /\ akind = "none"
  /\ afile = "none"
  /\ attempt = 0
  /\ delayMs = 0
  /\ aresponse = [kind |-> "none"]
  /\ submitted = "none"
  /\ submitCalls = 0
  /\ statusCalls = 0
  /\ resultSent = FALSE
  /\ sleptAfter = 0
  /\ lastResp = "none"
  /\ allPending = TRUE
  /\ failedAt = 0
  /\ prevDelay = 0
  /\ mpc = "idle"
  /\ mInitialized = FALSE
  /\ mRequestId = 0
  /\ mCalls = 0
  /\ mLog = <<>>

\* Date.now() / new Date(): the clock never runs backwards; time that passes
\* between two reads of the clock is observed by the later read
ClockReads == now..MaxClock

\* ------------------------------------------ MCPProcessor.processInvoice
\* mutant: the initial saveResult is left out, the upload is read at once
processInvoice_NoInitialSave(j, filename, configId, clientInfo, t) ==
  /\ pc[j] = "idle"
  /\ \A k \in Jobs : k < j => pc[k] # "idle"
  /\ now' = t
  /\ rec' = [rec EXCEPT ![j] = InitialRecord(j, filename, configId, clientInfo, t)]
  /\ startTime' = [startTime EXCEPT ![j] = t]
  /\ pc' = [pc EXCEPT ![j] = "readFile"]
  /\ UNCHANGED <<storeVars, saving, after, idxLocal, initialized, requestId, err,
                 outcome, log, delVars, cliVars, histVars, sesVars, apiVars>>

\* lines 23-38: allocate the id, build the record, call saveResult
processInvoice(j, filename, configId, clientInfo, t) ==
  /\ pc[j] = "idle"
  /\ \A k \in Jobs : k < j => pc[k] # "idle"   \* randomUUID: ids in call order
  /\ now' = t
  /\ rec' = [rec EXCEPT ![j] = InitialRecord(j, filename, configId, clientInfo, t)]
  /\ startTime' = [startTime EXCEPT ![j] = t]
  /\ saving' = [saving EXCEPT ![j] = rec'[j]]
  /\ after' = [after EXCEPT ![j] = "readFile"]
  /\ pc' = [pc EXCEPT ![j] = "saveFile"]
  /\ UNCHANGED <<storeVars, idxLocal, initialized, requestId, err, outcome,
                 log, delVars, cliVars, histVars, sesVars, apiVars>>

\* saveResult lines 17-19: write processing-<id>.json
saveResult(j) ==
  /\ pc[j] = "saveFile"
  /\ files' = [files EXCEPT ![saving[j].id] = saving[j]]
  /\ log' = [log EXCEPT ![j] = Append(@, "write:" \o saving[j].status)]
  /\ pc' = [pc EXCEPT ![j] = "saveReadIndex"]
  /\ UNCHANGED <<now, indexExists, index, rec, startTime, saving, after, idxLocal,
                 initialized, requestId, err, outcome, delVars, cliVars, histVars, sesVars, apiVars>>

\* updateIndex lines 66-73: read index.json, {} when it does not exist
updateIndexRead(j) ==
  /\ pc[j] = "saveReadIndex"
  /\ idxLocal' = [idxLocal EXCEPT ![j] = IF indexExists THEN index ELSE <<>>]
  /\ pc' = [pc EXCEPT ![j] = "saveWriteIndex"]
  /\ UNCHANGED <<now, storeVars, rec, startTime, saving, after, initialized,
                 requestId, err, outcome, log, delVars, cliVars, histVars, sesVars, apiVars>>

\* where processInvoice continues when its saveResult has returned:
\* line 40 after the initial save, line 61 (return) after the completed one,
\* line 74 (throw) after the failed one
Continue(j) ==
  /\ pc' = [pc EXCEPT ![j] = after[j]]
  /\ outcome' = [outcome EXCEPT ![j] =
                   IF after[j] = "returned" THEN [kind |-> "returned", value |-> saving[j]]
                   ELSE IF after[j] = "thrown" THEN [kind |-> "thrown", value |-> err[j]]
                   ELSE @]

\* updateIndex lines 75-88: rewrite index.json; saveResult returns
updateIndexWrite(j) ==
  /\ pc[j] = "saveWriteIndex"
  /\ index' = updateIndex(idxLocal[j], saving[j])
  /\ indexExists' = TRUE
  /\ log' = [log EXCEPT ![j] = Append(@, "saved:" \o saving[j].status)]
  /\ Continue(j)
  /\ idxLocal' = [idxLocal EXCEPT ![j] = <<>>]
  /\ saving' = [saving EXCEPT ![j] = NoRec]
  /\ UNCHANGED <<now, files, rec, startTime, after, initialized, requestId, err,
                 delVars, cliVars, histVars, sesVars, apiVars>>

\* mutant: the catch block rethrows without saving the failed record
Catch_NoSave(j, msg, t) ==
  /\ now' = t
  /\ err' = [err EXCEPT ![j] = msg]
  /\ pc' = [pc EXCEPT ![j] = "thrown"]
  /\ UNCHANGED <<saving, after>>

\* lines 63-73: build failedResult at time t and save it; line 74 follows the save
Catch(j, msg, t) ==
  /\ now' = t
  /\ err' = [err EXCEPT ![j] = msg]
  /\ saving' = [saving EXCEPT ![j] = FailedRecord(rec[j], msg, t, startTime[j])]
  /\ after' = [after EXCEPT ![j] = "thrown"]
  /\ pc' = [pc EXCEPT ![j] = "saveFile"]

\* mutant: a missing upload is read as an empty buffer instead of throwing
readFile_IgnoresMissing(j, t) ==
  /\ pc[j] = "readFile"
  /\ log' = [log EXCEPT ![j] = Append(@, "readFile")]
  /\ pc' = [pc EXCEPT ![j] = "callTool"]
  /\ t = now
  /\ UNCHANGED <<now, err, saving, after>>
  /\ UNCHANGED <<storeVars, rec, startTime, idxLocal, initialized, requestId,
                 outcome, delVars, cliVars, histVars, sesVars, apiVars>>

\* lines 41-42: fs.readFile of the upload
readFile(j, t) ==
  /\ pc[j] = "readFile"
  /\ log' = [log EXCEPT ![j] = Append(@, "readFile")]
  /\ IF rec[j].filename \in Uploaded
     THEN /\ pc' = [pc EXCEPT ![j] = "callTool"]
          /\ t = now
          /\ UNCHANGED <<now, err, saving, after>>
     ELSE Catch(j, "ENOENT: no such file or directory", t)
  /\ UNCHANGED <<storeVars, rec, startTime, idxLocal, initialized, requestId,
                 outcome, delVars, cliVars, histVars, sesVars, apiVars>>

\* MCPClient.initialize, lines 69-131: what the server answers
InitializeResponses == {"result", "not ok", "no result"}

InitializeError(resp) ==
  CASE resp = "not ok" -> "MCP server error: 500"
    [] resp = "no result" -> "Invalid MCP server response"

\* callTool lines 134-136 with initialize: sent only while not initialized
initialize(j, resp, t) ==
  /\ pc[j] = "callTool"
  /\ ~initialized[j]
  /\ requestId' = [requestId EXCEPT ![j] = @ + 1]
  /\ log' = [log EXCEPT ![j] = Append(@, "net:initialize")]
  /\ IF resp = "result"
     THEN /\ initialized' = [initialized EXCEPT ![j] = TRUE]
          /\ pc' = [pc EXCEPT ![j] = "toolsCall"]
          /\ t = now
          /\ UNCHANGED <<now, err, saving, after>>
     ELSE /\ Catch(j, InitializeError(resp), t)
          /\ UNCHANGED initialized
  /\ UNCHANGED <<storeVars, rec, startTime, idxLocal, outcome, delVars, cliVars, histVars, sesVars, apiVars>>

\* MCPClient.callTool lines 138-179 and processInvoice lines 197-203:
\* "empty" is a response object with neither result nor error
ToolResponses == {"result", "empty", "error", "not ok"}

\* the JSON-RPC error object of a tools/call response
RpcError == [code |-> -32000, message |-> "upstream rejected"]

\* MCPClient.processInvoice lines 199-201: the Error built from response.error
ThrownToolError(e) == [message |-> "MCP tool error: " \o e.message]

ToolError(resp) ==
  CASE resp = "error" -> ThrownToolError(RpcError).message
    [] resp = "not ok" -> "MCP tool call error: 500"

\* mcp-processor.ts lines 48-60: tools/call, then build completedResult
callTool(j, resp, payload, t) ==
  /\ pc[j] = "toolsCall"
  /\ requestId' = [requestId EXCEPT ![j] = @ + 1]
  /\ log' = [log EXCEPT ![j] = Append(@, "net:tools/call")]
  /\ IF resp \in {"result", "empty"}
     THEN /\ now' = t
          /\ saving' = [saving EXCEPT ![j] =
                 CompletedRecord(rec[j], IF resp = "result" THEN payload ELSE Absent,
                                 t, startTime[j])]
          /\ after' = [after EXCEPT ![j] = "returned"]
          /\ pc' = [pc EXCEPT ![j] = "saveFile"]
          /\ UNCHANGED err
     ELSE Catch(j, ToolError(resp), t)
  /\ UNCHANGED <<storeVars, rec, startTime, idxLocal, initialized, outcome,
                 delVars, cliVars, histVars, sesVars, apiVars>>

\* ---------------------------------------- one MCPClient instance, reused
\* callers invoke callTool on one instance, each call awaited before the next
\* mutant: callTool initializes on every invocation
clientCallTool_AlwaysInitializes ==
  /\ mpc = "idle"
  /\ mCalls < MaxCalls
  /\ mCalls' = mCalls + 1
  /\ mRequestId' = mRequestId + 1
  /\ mLog' = mLog \o <<"callTool", "net:initialize">>
  /\ mpc' = "initialize"
  /\ UNCHANGED <<now, storeVars, mcpVars, delVars, cliVars, histVars, apiVars,
                 mInitialized>>

\* callTool lines 133-136 and 138-154: initialize is sent while the instance
\* is not initialized, otherwise tools/call is sent at once
clientCallTool ==
  /\ mpc = "idle"
  /\ mCalls < MaxCalls
  /\ mCalls' = mCalls + 1
  /\ mRequestId' = mRequestId + 1
  /\ IF mInitialized
     THEN /\ mLog' = mLog \o <<"callTool", "net:tools/call">>
          /\ mpc' = "toolsCall"
     ELSE /\ mLog' = mLog \o <<"callTool", "net:initialize">>
          /\ mpc' = "initialize"
  /\ UNCHANGED <<now, storeVars, mcpVars, delVars, cliVars, histVars, apiVars,
                 mInitialized>>

\* initialize lines 97-130: `initialized` is set only with a result; any
\* other answer throws out of callTool. With a result callTool goes on to
\* send tools/call (lines 138-154)
clientInitialized(resp) ==
  /\ mpc = "initialize"
  /\ IF resp = "result"
     THEN /\ mInitialized' = TRUE
          /\ mRequestId' = mRequestId + 1
          /\ mLog' = mLog \o <<"initialize:ok", "net:tools/call">>
          /\ mpc' = "toolsCall"
     ELSE /\ mLog' = mLog \o <<"initialize:failed", "throw:" \o InitializeError(resp)>>
          /\ mpc' = "idle"
          /\ UNCHANGED <<mInitialized, mRequestId>>
  /\ UNCHANGED <<now, storeVars, mcpVars, delVars, cliVars, histVars, apiVars, mCalls>>

\* callTool lines 156-179: the response object is returned, error member
\* included; a response that is not ok throws
clientToolAnswered(resp) ==
  /\ mpc = "toolsCall"
  /\ mLog' = Append(mLog, IF resp = "not ok" THEN "throw:" \o ToolError(resp)
                          ELSE "return:" \o resp)
  /\ mpc' = "idle"
  /\ UNCHANGED <<now, storeVars, mcpVars, delVars, cliVars, histVars, apiVars,
                 mInitialized, mRequestId, mCalls>>

\* ------------------------------------------------- POST /process-mcp
\* req.body.clientInfo as the handler sees it: a field the body leaves out
\* (or sends empty) is falsy
ClientInfoFields(ci) ==
  CASE ci = "VAT1/Acme/FI" -> [businessId |-> "VAT1", name |-> "Acme", country |-> "FI"]
    [] ci = "VAT2/Beta/SE" -> [businessId |-> "VAT2", name |-> "Beta", country |-> "SE"]
    [] ci = "/Acme/FI" -> [businessId |-> "", name |-> "Acme", country |-> "FI"]
    [] ci = "VAT1//FI" -> [businessId |-> "VAT1", name |-> "", country |-> "FI"]
    [] ci = "VAT1/Acme/" -> [businessId |-> "VAT1", name |-> "Acme", country |-> ""]

RequestClientInfos == ClientInfos \cup {Absent, "/Acme/FI", "VAT1//FI", "VAT1/Acme/"}

\* index.ts line 961: !filename || !configId || !clientInfo
MissingFields(filename, configId, clientInfo) ==
  Absent \in {filename, configId, clientInfo}

\* index.ts line 965: !clientInfo.businessId || !clientInfo.name || !clientInfo.country
MissingClientInfo(clientInfo) ==
  LET ci == ClientInfoFields(clientInfo)
  IN "" \in {ci.businessId, ci.name, ci.country}

BadRequest(msg) == [kind |-> "response", code |-> 400, value |-> msg]

\* mutant: the body is validated only after the job record has been written
processMcpRejected_AfterSave(j, filename, configId, clientInfo) ==
  /\ pc[j] = "idle"
  /\ \A k \in Jobs : k < j => pc[k] # "idle"
  /\ MissingFields(filename, configId, clientInfo) \/ MissingClientInfo(clientInfo)
  /\ files' = [files EXCEPT ![j] = InitialRecord(j, filename, configId, clientInfo, now)]
  /\ log' = [log EXCEPT ![j] = Append(@, "write:processing")]
  /\ outcome' = [outcome EXCEPT ![j] = BadRequest("Missing required fields")]
  /\ pc' = [pc EXCEPT ![j] = "rejected"]
  /\ UNCHANGED <<now, indexExists, index, rec, startTime, saving, after, idxLocal,
                 initialized, requestId, err, delVars, cliVars, histVars, sesVars, apiVars>>

\* index.ts lines 957-968: a body that fails validation is answered 400 and
\* the handler returns; a body that passes goes on to processInvoice
processMcpRejected(j, filename, configId, clientInfo) ==
  /\ pc[j] = "idle"
  /\ \A k \in Jobs : k < j => pc[k] # "idle"
  /\ IF MissingFields(filename, configId, clientInfo)
     THEN outcome' = [outcome EXCEPT ![j] =
            BadRequest("Missing required fields: filename, configId, clientInfo")]
     ELSE /\ MissingClientInfo(clientInfo)
          /\ outcome' = [outcome EXCEPT ![j] =
               BadRequest("Missing required client info: businessId, name, country")]
  /\ pc' = [pc EXCEPT ![j] = "rejected"]
  /\ UNCHANGED <<now, storeVars, rec, startTime, saving, after, idxLocal,
                 initialized, requestId, err, log, delVars, cliVars, histVars, sesVars, apiVars>>

\* ------------------------------------------- ResultStorage.deleteResult
\* a saveResult or deleteResult call has begun and not yet returned
StoreCallInProgress ==
  \/ dpc # "idle"
  \/ \E c \in Clients : cpc[c] # "idle"
  \/ \E j \in Jobs : pc[j] \in {"saveFile", "saveReadIndex", "saveWriteIndex"}

\* lines 96-97: unlink; a missing file throws and deleteResult returns false
deleteResult(id) ==
  /\ dpc = "idle"
  /\ did' = id
  /\ lastCall' = [op |-> "delete", id |-> id, same |-> FALSE, n |-> lastCall.n + 1]
  /\ overlapped' = (overlapped \/ StoreCallInProgress)
  /\ IF files[id].status = "none"
     THEN /\ dret' = "false"
          /\ UNCHANGED <<files, dpc, removed>>
     ELSE /\ files' = [files EXCEPT ![id] = NoRec]
          /\ removed' = [removed EXCEPT ![id] = files[id].status]
          /\ dpc' = "readIndex"
          /\ dret' = "none"
  /\ UNCHANGED <<now, indexExists, index, mcpVars, dIdx, cliVars, apiVars, sesVars>>

\* lines 103-108: read index.json; without one, return true
deleteReadIndex ==
  /\ dpc = "readIndex"
  /\ IF indexExists
     THEN /\ dIdx' = index
          /\ dpc' = "writeIndex"
          /\ UNCHANGED dret
     ELSE /\ dret' = "true"
          /\ dpc' = "idle"
          /\ UNCHANGED dIdx
  /\ UNCHANGED <<now, storeVars, mcpVars, did, cliVars, histVars, sesVars, apiVars>>

\* lines 111-119: prune the id from every bucket, rewrite index.json
deleteWriteIndex ==
  /\ dpc = "writeIndex"
  /\ index' = pruneIndex(dIdx, did)
  /\ dret' = "true"
  /\ dpc' = "idle"
  /\ dIdx' = <<>>
  /\ UNCHANGED <<now, files, indexExists, mcpVars, did, cliVars, histVars, sesVars,
                 apiVars>>

\* ------------------------------------------- callers of ResultStorage
\* the record a caller builds first (mcp-processor.ts 27-35)
BaseRecord(r) ==
  InitialRecord(r.id, r.filename, r.configId, r.clientInfo, r.createdAt)

\* the record POST /process-api saves for a SmartScan result (index.ts
\* 1209-1225): the id comes from the provider's feedbackId, the filename from
\* the request, createdAt and completedAt from the clock
SmartScanRecord(id, filename, payload, t) ==
  [InitialRecord(id, filename, "cfg-smartscan", "//", t)
     EXCEPT !.status = "completed", !.result = payload, !.completedAt = t,
            !.duration = 0]

\* what client c may pass to saveResult at time t. An orchestration saves a
\* first record under its own id and then that record again, unchanged or
\* completed (mcp-processor.ts 51-60: same id, filename and createdAt). The
\* SmartScan handler saves a new completed record under whatever id the
\* provider names, again whenever the provider names that id again
SaveArguments(c, t) ==
  LET scanned == {SmartScanRecord(c, f, p, t) : f \in Filenames, p \in Payloads}
  IN IF crec[c] = NoRec
     THEN {InitialRecord(c, f, "cfg-mcp", "VAT1/Acme/FI", t) : f \in Filenames}
            \cup scanned
     ELSE IF crec[c].configId = "cfg-smartscan"
     THEN scanned
     ELSE IF t = now
     THEN {crec[c]} \cup
          {CompletedRecord(BaseRecord(crec[c]), p, t, crec[c].createdAt) : p \in Payloads}
     ELSE {}

\* a caller invokes saveResult(result), part_004 line 16
callSaveResult(c, r, t) ==
  /\ cpc[c] = "idle"
  /\ \A k \in Clients : k < c => crec[k] # NoRec   \* randomUUID: ids in call order
  /\ r \in SaveArguments(c, t)
  /\ now' = t
  /\ crec' = [crec EXCEPT ![c] = r]
  /\ cpc' = [cpc EXCEPT ![c] = "saveFile"]
  /\ lastCall' = [op |-> "save", id |-> r.id, same |-> (r = crec[c]),
                   n |-> lastCall.n + 1]
  /\ overlapped' = (overlapped \/ StoreCallInProgress)
  /\ UNCHANGED <<storeVars, mcpVars, delVars, cIdx, removed, apiVars, sesVars>>

\* mutant: saveResult rewrites a record file only while one exists
clientWriteFile_OnlyExisting(c) ==
  /\ cpc[c] = "saveFile"
  /\ files' = IF files[crec[c].id] = NoRec /\ crec[c].status = "completed"
              THEN files ELSE [files EXCEPT ![crec[c].id] = crec[c]]
  /\ cpc' = [cpc EXCEPT ![c] = "saveReadIndex"]
  /\ UNCHANGED <<now, indexExists, index, mcpVars, delVars, crec, cIdx, histVars, sesVars,
                 apiVars>>

\* saveResult lines 17-19: write processing-<id>.json
clientWriteFile(c) ==
  /\ cpc[c] = "saveFile"
  /\ files' = [files EXCEPT ![crec[c].id] = crec[c]]
  /\ cpc' = [cpc EXCEPT ![c] = "saveReadIndex"]
  /\ UNCHANGED <<now, indexExists, index, mcpVars, delVars, crec, cIdx, histVars, sesVars,
                 apiVars>>

\* updateIndex lines 66-73: read index.json, {} when it does not exist
clientReadIndex(c) ==
  /\ cpc[c] = "saveReadIndex"
  /\ cIdx' = [cIdx EXCEPT ![c] = IF indexExists THEN index ELSE <<>>]
  /\ cpc' = [cpc EXCEPT ![c] = "saveWriteIndex"]
  /\ UNCHANGED <<now, storeVars, mcpVars, delVars, crec, histVars, sesVars, apiVars>>

\* mutant: updateIndex returns without rewriting index.json
clientWriteIndex_NoWrite(c) ==
  /\ cpc[c] = "saveWriteIndex"
  /\ cIdx' = [cIdx EXCEPT ![c] = <<>>]
  /\ cpc' = [cpc EXCEPT ![c] = "idle"]
  /\ UNCHANGED <<now, storeVars, mcpVars, delVars, crec, histVars, sesVars, apiVars>>

\* updateIndex lines 75-88: rewrite index.json; saveResult returns
clientWriteIndex(c) ==
  /\ cpc[c] = "saveWriteIndex"
  /\ index' = updateIndex(cIdx[c], crec[c])
  /\ indexExists' = TRUE
  /\ cIdx' = [cIdx EXCEPT ![c] = <<>>]
  /\ cpc' = [cpc EXCEPT ![c] = "idle"]
  /\ UNCHANGED <<now, files, mcpVars, delVars, crec, histVars, sesVars, apiVars>>

\* ------------------------------------------------- the polling adapters
\* ChaintrustClient.pollForResults (README.md 145-146) and
\* SmartScanClient.pollForResults (part_003 972-973)
ChaintrustMaxAttempts == 15
SmartScanMaxAttempts == 20
BaseDelayMs == 3000
CapDelayMs == 10000
StepDelayMs == 1000

maxAttempts(kind) ==
  IF kind = "task" THEN ChaintrustMaxAttempts ELSE SmartScanMaxAttempts

\* mutant: the ramp goes on past attempt 9 without the jump to the cap
ChaintrustDelay_NoJump(a) ==
  IF a >= 5 THEN BaseDelayMs + (a - 4) * StepDelayMs ELSE BaseDelayMs

\* README.md 165-175: the delay after a still-pending status
ChaintrustDelay(a) ==
  IF a >= 9 THEN CapDelayMs
  ELSE IF a >= 5 THEN BaseDelayMs + (a - 4) * StepDelayMs
  ELSE BaseDelayMs

\* mutant: the catch block always sleeps the base delay
ChaintrustCatchDelay_BaseOnly(a) == BaseDelayMs

\* README.md 194-200: the delay after a caught error
ChaintrustCatchDelay(a) ==
  IF a >= 9 THEN CapDelayMs
  ELSE IF a >= 5 THEN BaseDelayMs + (a - 4) * StepDelayMs
  ELSE BaseDelayMs

\* mutant: the delay is not capped
SmartScanDelay_Uncapped(a) ==
  IF a >= 2 THEN BaseDelayMs + (a - 1) * StepDelayMs ELSE BaseDelayMs

\* part_003 1010-1016: the delay after a still-pending status
SmartScanDelay(a) ==
  LET d == IF a >= 2 THEN BaseDelayMs + (a - 1) * StepDelayMs ELSE BaseDelayMs
  IN IF d > CapDelayMs THEN CapDelayMs ELSE d

\* part_003 1042-1048: the delay after a caught error
SmartScanCatchDelay(a) ==
  LET d == IF a >= 2 THEN BaseDelayMs + (a - 1) * StepDelayMs ELSE BaseDelayMs
  IN IF d > CapDelayMs THEN CapDelayMs ELSE d

TryDelay(kind, a) == IF kind = "task" THEN ChaintrustDelay(a) ELSE SmartScanDelay(a)

CatchDelay(kind, a) ==
  IF kind = "task" THEN ChaintrustCatchDelay(a) ELSE SmartScanCatchDelay(a)

\* what a status request can produce: the provider's status, or an exception
StatusResponses(kind) ==
  IF kind = "task" THEN {"processing", "completed", "failed", "throw"}
  ELSE {"CREATED", "RUNNING", "DONE", "FAILED", "throw"}

IsDone(resp) == resp \in {"completed", "DONE"}
IsFailed(resp) == resp \in {"failed", "FAILED"}
IsPending(resp) == resp \in {"processing", "CREATED", "RUNNING"}

ApiFilenames == {"inv-001.pdf", "missing.pdf", "notes.txt"}

\* filename.split('.').pop()?.toLowerCase()
FileExtension(f) ==
  CASE f = "inv-001.pdf" -> "pdf"
    [] f = "missing.pdf" -> "pdf"
    [] f = "notes.txt" -> "txt"

\* ChaintrustClient.extractInvoice, README.md 63-70
ChaintrustContentType(f) ==
  IF FileExtension(f) = "pdf" THEN "application/pdf"
  ELSE IF FileExtension(f) \in {"png", "jpg", "jpeg"} THEN "image/" \o FileExtension(f)
  ELSE "application/octet-stream"

\* SmartScanClient.processDocument, part_003 767
SmartScanSupportedTypes ==
  {"pdf", "jpg", "jpeg", "png", "bmp", "webp", "tif", "gif", "heif", "heic"}

Response(kind, code, success, status, result, error, attempts) ==
  [kind |-> kind, code |-> code, success |-> success, status |-> status,
   result |-> result, error |-> error, attempts |-> attempts]

\* POST /process-api, index.ts 1134-1162 (Chaintrust configuration): the
\* request is valid; the upload is read before the client is built
processApi(f) ==
  /\ apc = "idle"
  /\ akind' = "task"
  /\ afile' = f
  /\ IF f \in Uploaded
     THEN /\ apc' = "submit"
          /\ UNCHANGED aresponse
     ELSE /\ apc' = "done"
          /\ aresponse' = Response("response", 500, FALSE, "error", Absent,
                                   "ENOENT: no such file or directory", 0)
  /\ UNCHANGED <<now, storeVars, mcpVars, delVars, cliVars, histVars, sesVars, attempt, delayMs, submitted,
                 submitCalls, statusCalls, resultSent, sleptAfter, lastResp,
                 allPending, failedAt, prevDelay>>

\* SmartScanClient.processDocument, part_003 750-775: validate the extension
processDocument(f) ==
  /\ apc = "idle"
  /\ akind' = "txn"
  /\ afile' = f
  /\ IF FileExtension(f) \in SmartScanSupportedTypes
     THEN /\ apc' = "submit"
          /\ UNCHANGED aresponse
     ELSE /\ apc' = "done"
          /\ aresponse' = Response("thrown", 0, FALSE, "error", Absent,
                                   "Unsupported file type", 0)
  /\ UNCHANGED <<now, storeVars, mcpVars, delVars, cliVars, histVars, sesVars, attempt, delayMs, submitted,
                 submitCalls, statusCalls, resultSent, sleptAfter, lastResp,
                 allPending, failedAt, prevDelay>>

\* mutant: a failed submit is sent again
submit_RetriesOnFailure(resp) ==
  /\ apc = "submit"
  /\ submitCalls' = submitCalls + 1
  /\ submitted' = IF akind = "task" THEN ChaintrustContentType(afile)
                  ELSE "application/json"
  /\ IF resp = "ok"
     THEN apc' = "status" /\ attempt' = 1
     ELSE UNCHANGED <<apc, attempt>>
  /\ UNCHANGED <<now, storeVars, mcpVars, delVars, cliVars, histVars, sesVars, akind, afile,
                 delayMs, aresponse, statusCalls, resultSent, sleptAfter, lastResp,
                 allPending, failedAt, prevDelay>>

\* extractInvoice (README.md 85-103; index.ts 1256, catch 1283-1317) and
\* createTransaction (part_003 881-905; processDocument 779): the one submit
submit(resp) ==
  /\ apc = "submit"
  /\ submitCalls' = submitCalls + 1
  /\ submitted' = IF akind = "task" THEN ChaintrustContentType(afile)
                  ELSE "application/json"
  /\ IF resp = "ok"
     THEN /\ apc' = "status"
          /\ attempt' = 1
          /\ UNCHANGED aresponse
     ELSE /\ apc' = "done"
          /\ UNCHANGED attempt
          /\ aresponse' =
               IF akind = "task"
               THEN IF resp = "not ok"
                    THEN Response("response", 400, FALSE, "error", Absent,
                                  "Chaintrust API error: 500", 0)
                    ELSE Response("response", 500, FALSE, "error", Absent,
                                  "fetch failed", 0)
               ELSE Response("thrown", 0, FALSE, "error", Absent,
                             IF resp = "not ok"
                             THEN "SmartSCan transaction creation failed: 500"
                             ELSE "fetch failed", 0)
  /\ UNCHANGED <<now, storeVars, mcpVars, delVars, cliVars, histVars, sesVars, akind, afile, delayMs,
                 statusCalls, resultSent, sleptAfter, lastResp, allPending, failedAt, prevDelay>>

SubmitResponses == {"ok", "not ok", "throw"}

\* pollForResults returns `value`; index.ts 1261-1281 turns it into the
\* response, processDocument (part_003 785-788) hands it to its caller
PollReturn(status, value) ==
  /\ apc' = "done"
  /\ delayMs' = 0
  /\ aresponse' =
       IF akind = "task"
       THEN IF status = "timeout"
            THEN Response("response", 200, FALSE, "timeout", Absent, Absent,
                          maxAttempts(akind))
            ELSE Response("response", 200, TRUE, Absent, value, Absent, 0)
       ELSE IF status = "timeout"
            THEN Response("returned", 0, FALSE, "timeout", Absent, Absent,
                          maxAttempts(akind))
            ELSE Response("returned", 0, TRUE, Absent, value, Absent, 0)

\* setTimeout(resolve, d)
PollSleep(d) ==
  /\ apc' = "sleep"
  /\ delayMs' = d
  /\ UNCHANGED aresponse

\* mutant: on the last attempt the catch block rethrows
PollCatch_Rethrows ==
  IF attempt = maxAttempts(akind)
  THEN /\ apc' = "done"
       /\ delayMs' = 0
       /\ aresponse' = Response("thrown", 0, FALSE, "error", Absent, "fetch failed", 0)
       /\ UNCHANGED sleptAfter
  ELSE PollSleep(CatchDelay(akind, attempt)) /\ sleptAfter' = attempt

\* the catch block: README.md 181-204, part_003 1021-1052
PollCatch ==
  IF attempt = maxAttempts(akind)
  THEN PollReturn("timeout", Absent) /\ UNCHANGED sleptAfter
  ELSE PollSleep(CatchDelay(akind, attempt)) /\ sleptAfter' = attempt

\* mutant: the last attempt sleeps too before the timeout is returned
PollPending_SleepsOnLast ==
  PollSleep(TryDelay(akind, attempt)) /\ sleptAfter' = attempt

\* the try block after a still-pending status: README.md 163-179 (then the
\* loop ends and line 208 returns), part_003 999-1019
PollPending ==
  IF attempt = maxAttempts(akind)
  THEN PollReturn("timeout", Absent) /\ UNCHANGED sleptAfter
  ELSE PollSleep(TryDelay(akind, attempt)) /\ sleptAfter' = attempt

\* getStatus / getTransactionStatus and the branch on its answer
pollStatus(resp) ==
  /\ apc = "status"
  /\ resp \in StatusResponses(akind)
  /\ statusCalls' = statusCalls + 1
  /\ lastResp' = resp
  /\ allPending' = (allPending /\ IsPending(resp))
  /\ failedAt' = IF IsFailed(resp) /\ failedAt = 0 THEN statusCalls + 1 ELSE failedAt
  /\ resultSent' = FALSE
  /\ IF IsDone(resp)
     THEN /\ apc' = "result"
          /\ UNCHANGED <<delayMs, aresponse, sleptAfter>>
     ELSE IF IsPending(resp) THEN PollPending
     ELSE PollCatch
  /\ UNCHANGED <<now, storeVars, mcpVars, delVars, cliVars, histVars, sesVars, akind, afile, attempt, submitted,
                 submitCalls, prevDelay>>

ResultResponses == {"payload", "throw"}

\* mutant: the payload is returned only after one more sleep and status check
pollResult_PollsAgain(resp, payload) ==
  /\ apc = "result"
  /\ resultSent' = TRUE
  /\ lastResp' = IF resp = "throw" THEN "result throw" ELSE "payload"
  /\ PollCatch
  /\ UNCHANGED <<now, storeVars, mcpVars, delVars, cliVars, histVars, sesVars, akind, afile,
                 attempt, submitted, submitCalls, statusCalls, allPending, failedAt,
                 prevDelay>>

\* getResult / getTransactionResults after a done status
pollResult(resp, payload) ==
  /\ apc = "result"
  /\ resultSent' = TRUE
  /\ lastResp' = IF resp = "throw" THEN "result throw" ELSE "payload"
  /\ IF resp = "payload"
     THEN PollReturn("payload", payload) /\ UNCHANGED sleptAfter
     ELSE PollCatch
  /\ UNCHANGED <<now, storeVars, mcpVars, delVars, cliVars, histVars, sesVars, akind, afile,
                 attempt, submitted, submitCalls, statusCalls, allPending, failedAt,
                 prevDelay>>

\* the sleep ends: attempt++ and the next iteration starts
pollWake ==
  /\ apc = "sleep"
  /\ attempt' = attempt + 1
  /\ apc' = "status"
  /\ delayMs' = 0
  /\ prevDelay' = delayMs
  /\ lastResp' = "none"
  /\ UNCHANGED <<now, storeVars, mcpVars, delVars, cliVars, histVars, sesVars, akind, afile, aresponse,
                 submitted,
                 submitCalls, statusCalls, resultSent, sleptAfter, allPending,
                 failedAt>>

Next ==
  \/ \E j \in Jobs, f \in Filenames, c \in ConfigIds, ci \in ClientInfos,
        t \in ClockReads : processInvoice(j, f, c, ci, t)
  \/ \E j \in Jobs : saveResult(j)
  \/ \E j \in Jobs : updateIndexRead(j)
  \/ \E j \in Jobs : updateIndexWrite(j)
  \/ \E j \in Jobs, t \in ClockReads : readFile(j, t)
  \/ \E j \in Jobs, resp \in InitializeResponses, t \in ClockReads :
       initialize(j, resp, t)
  \/ \E j \in Jobs, resp \in ToolResponses, p \in Payloads, t \in ClockReads :
       callTool(j, resp, p, t)
  \/ \E j \in Jobs, f \in Filenames \cup {Absent}, c \in ConfigIds \cup {Absent},
        ci \in RequestClientInfos : processMcpRejected(j, f, c, ci)

Spec == Init /\ [][Next]_vars

\* the orchestrations together with a client that deletes results
NextDelete ==
  \/ Next
  \/ \E id \in Ids : deleteResult(id)
  \/ deleteReadIndex
  \/ deleteWriteIndex

\* two concurrent orchestrations: each saves its processing record and then
\* its completed record
Orchestrations == {c \in Clients : c <= 2}

\* their saveResult calls and a client's deleteResult calls, each begun at
\* any time
NextStoreConc ==
  \/ \E c \in Orchestrations : \E r \in SaveArguments(c, now) :
       /\ lastCall.n < MaxStoreCalls
       /\ r # crec[c] /\ r.configId = "cfg-mcp"
       /\ callSaveResult(c, r, now)
  \/ \E c \in Clients : clientWriteFile(c)
  \/ \E c \in Clients : clientReadIndex(c)
  \/ \E c \in Clients : clientWriteIndex(c)
  \/ \E id \in Clients : lastCall.n < MaxStoreCalls /\ deleteResult(id)
  \/ deleteReadIndex
  \/ deleteWriteIndex

SpecStoreConc == Init /\ [][NextStoreConc]_vars

\* the same calls, each awaited before the next begins
NextStore ==
  \/ \E c \in Clients, t \in ClockReads : \E r \in SaveArguments(c, t) :
       /\ ~StoreCallInProgress /\ lastCall.n < MaxStoreCalls
       /\ callSaveResult(c, r, t)
  \/ \E c \in Clients : clientWriteFile(c)
  \/ \E c \in Clients : clientReadIndex(c)
  \/ \E c \in Clients : clientWriteIndex(c)
  \/ \E id \in Clients :
       ~StoreCallInProgress /\ lastCall.n < MaxStoreCalls /\ deleteResult(id)
  \/ deleteReadIndex
  \/ deleteWriteIndex

SpecStore == Init /\ [][NextStore]_vars

NextPoll ==
  \/ \E f \in ApiFilenames : processApi(f)
  \/ \E f \in ApiFilenames : processDocument(f)
  \/ \E resp \in SubmitResponses : submit(resp)
  \/ \E resp \in StatusResponses("task") \cup StatusResponses("txn") : pollStatus(resp)
  \/ \E resp \in ResultResponses, p \in Payloads : pollResult(resp, p)
  \/ pollWake

SpecPoll == Init /\ [][NextPoll]_vars

\* one request of either kind: a processInvoice call of each job, or one
\* call through a polling adapter
NextRequest ==
  \/ apc = "idle" /\ Next
  \/ (\A j \in Jobs : pc[j] = "idle") /\ NextPoll

SpecRequest == Init /\ [][NextRequest]_vars

\* every request sent is answered or fails, and every setTimeout fires
SpecPollFair ==
  /\ SpecPoll
  /\ WF_vars(\E resp \in StatusResponses("task") \cup StatusResponses("txn") :
               pollStatus(resp))
  /\ WF_vars(\E resp \in ResultResponses, p \in Payloads : pollResult(resp, p))
  /\ WF_vars(pollWake)

\* every setTimeout fires; a request sent may stay unanswered, and the
\* polling adapters set no timeout on a request
SpecPollTimers == SpecPoll /\ WF_vars(pollWake)

\* one MCPClient instance on which callTool is invoked up to MaxCalls times
NextSession ==
  \/ clientCallTool
  \/ \E resp \in InitializeResponses : clientInitialized(resp)
  \/ \E resp \in ToolResponses : clientToolAnswered(resp)

SpecSession == Init /\ [][NextSession]_vars

\* ================================================================ claims
TerminalWrites == {"write:completed", "write:failed"}

Writes(j) == SelectSeq(log[j], LAMBDA e : e \in {"write:processing"} \cup TerminalWrites)

Has(j, e) == \E k \in DOMAIN log[j] : log[j][k] = e

\* the call has written its processing record and not yet begun a terminal write
InFlight(j) == Has(j, "write:processing") /\ \A e \in TerminalWrites : ~Has(j, e)

\* C1: in every processInvoice call the saveResult of the status=processing
\* record has returned before the upload is read and before any adapter
\* request is sent, and it precedes every terminal write of the same id.
C1_ProcessingSavedFirst ==
  \A j \in Jobs : \A k \in DOMAIN log[j] :
    log[j][k] \in {"readFile", "net:initialize", "net:tools/call"} \cup TerminalWrites
      => /\ k > 2
         /\ log[j][1] = "write:processing"
         /\ log[j][2] = "saved:processing"

C1_Witness ==
  \E j \in Jobs : /\ pc[j] = "returned"
                  /\ Has(j, "readFile") /\ Has(j, "net:tools/call")
                  /\ Has(j, "write:completed")

AdapterErrors ==
  {InitializeError(r) : r \in InitializeResponses \ {"result"}}
    \cup {ToolError(r) : r \in ToolResponses \ {"result", "empty"}}

\* C4 (as claimed): for every adapter kind, once the adapter has succeeded
\* with payload P a record with status=completed and result P is stored and
\* returned, and listByFilename(filename) holds exactly one record of the job.
C4_SuccessPersisted ==
  /\ \A j \in Jobs :
       pc[j] = "returned"
         => /\ outcome[j].value.status = "completed"
            /\ getResult(j) = outcome[j].value
            /\ SelectSeq(getResultsByFilename(rec[j].filename), LAMBDA r : r.id = j)
                 = <<outcome[j].value>>
  /\ apc = "done" /\ aresponse.success
       => \E r \in Payloads :
            /\ aresponse.result = r
            /\ Len(SelectSeq(getResultsByFilename(afile),
                             LAMBDA x : x.status = "completed" /\ x.result = r)) = 1

\* C5 (as claimed): when pollForResults returns the timeout outcome the
\* job's record is stored with status=timeout and the caller gets a result,
\* not an exception, that differs from a failure.
C5_TimeoutPersisted ==
  apc = "done" /\ aresponse.status = "timeout"
    => /\ aresponse.kind # "thrown"
       /\ aresponse.status # "error"
       /\ \E r \in {files[i] : i \in Ids} \cup
                  {getResultsByFilename(afile)[k] : k \in DOMAIN getResultsByFilename(afile)} :
            r.status = "timeout"

\* C6 (as claimed): once a status check has reported the provider's failed
\* state no further status or result request is sent and the call ends with
\* a failure, never with the timeout outcome or a payload.
C6_FailedIsTerminal ==
  failedAt # 0
    => /\ statusCalls = failedAt
       /\ ~resultSent
       /\ apc = "done"
       /\ aresponse.status = "error"

\* the attempt budget of pollForResults, as a state predicate
C7_Bounded ==
  /\ statusCalls <= maxAttempts(akind)
  /\ attempt <= maxAttempts(akind)
  /\ apc = "sleep" => sleptAfter = attempt /\ attempt < maxAttempts(akind)
  /\ allPending /\ statusCalls = maxAttempts(akind)
       => /\ apc = "done"
          /\ sleptAfter = maxAttempts(akind) - 1
          /\ aresponse.kind \in {"response", "returned"}
          /\ aresponse.status = "timeout"
          /\ aresponse.attempts = maxAttempts(akind)
  /\ allPending /\ apc = "done" /\ statusCalls > 0
       => statusCalls = maxAttempts(akind)

C8_ExceptionAbsorbed ==
  /\ lastResp \in {"throw", "result throw"}
       => IF attempt < maxAttempts(akind)
          THEN /\ apc = "sleep"
               /\ sleptAfter = attempt
               /\ delayMs = TryDelay(akind, attempt)
          ELSE /\ apc = "done"
               /\ aresponse.kind \in {"response", "returned"}
               /\ aresponse.status = "timeout"
               /\ aresponse.attempts = maxAttempts(akind)
  /\ aresponse.kind = "thrown" => statusCalls = 0
  /\ aresponse.kind = "response" /\ aresponse.status = "error" => statusCalls = 0

C8_Witness ==
  /\ apc = "done" /\ lastResp = "throw" /\ attempt = maxAttempts(akind)
  /\ aresponse.status = "timeout" /\ ~allPending /\ failedAt = 0

\* C9: when the adapter fails (initialize or tools/call throws, or the
\* tools/call response carries an error object) processInvoice has saved the
\* record with status=failed and error = the message before it throws that
\* error, and getResult(id) then returns this failed record.
C9_AdapterFailureRecorded ==
  \A j \in Jobs :
    pc[j] = "thrown" /\ err[j] \in AdapterErrors
      => /\ outcome[j] = [kind |-> "thrown", value |-> err[j]]
         /\ Len(log[j]) >= 2
         /\ log[j][Len(log[j]) - 1] = "write:failed"
         /\ log[j][Len(log[j])] = "saved:failed"
         /\ getResult(j).status = "failed"
         /\ getResult(j).error = err[j]
         /\ getResult(j).id = j

C9_Witness ==
  \E j \in Jobs : /\ pc[j] = "thrown"
                  /\ err[j] = ToolError("error")
                  /\ getResult(j).error = ToolError("error")

\* C10: when the upload named by filename cannot be read, processInvoice has
\* saved the processing record before the read, sends no adapter request,
\* saves the record with status=failed and the read error, and throws that
\* error; getResult(id) then returns the failed record.
C10_MissingFileRecorded ==
  \A j \in Jobs :
    Has(j, "readFile") /\ rec[j].filename \notin Uploaded
      => /\ SubSeq(log[j], 1, 3) = <<"write:processing", "saved:processing", "readFile">>
         /\ ~Has(j, "net:initialize") /\ ~Has(j, "net:tools/call")
         /\ requestId[j] = 0
         /\ pc[j] \in {"saveFile", "saveReadIndex", "saveWriteIndex", "thrown"}
         /\ err[j] = "ENOENT: no such file or directory"
         /\ pc[j] = "thrown"
              => /\ outcome[j] = [kind |-> "thrown", value |-> err[j]]
                 /\ getResult(j).status = "failed"
                 /\ getResult(j).error = err[j]
                 /\ Has(j, "saved:failed")

C10_Witness ==
  \E j \in Jobs : /\ pc[j] = "thrown"
                  /\ rec[j].filename = "missing.pdf"
                  /\ getResult(j).status = "failed"

\* every record the store holds: the per-id files and the index entries
Persisted ==
  {files[i] : i \in {k \in DOMAIN files : files[k].status # "none"}}
    \cup {Flatten(index)[k] : k \in DOMAIN Flatten(index)}

\* C11 (as claimed): every persisted record has a result exactly when its
\* status is completed, an error exactly when its status is failed, and no
\* completedAt exactly while its status is processing.
C11_FieldPresence ==
  \A r \in Persisted :
    /\ (r.result # Absent) <=> (r.status = "completed")
    /\ (r.error # Absent) <=> (r.status = "failed")
    /\ (r.completedAt = Unset) <=> (r.status = "processing")

\* the index entries of one id, in listAll order
EntriesOf(id) == SelectSeq(getAllResults, LAMBDA r : r.id = id)

\* C12 (as claimed): a bucket of the index never holds two entries of one id, and when
\* saveResult has been called twice in a row with the same record and has
\* returned, listAll() holds exactly one record of that id.
C12_UpsertIdempotent ==
  /\ \A k \in DOMAIN index : \A a, b \in DOMAIN index[k].items :
       a # b => index[k].items[a].id # index[k].items[b].id
  /\ ~StoreCallInProgress /\ lastCall.op = "save" /\ lastCall.same
       => EntriesOf(lastCall.id) = <<crec[lastCall.id]>>

\* C13: when deleteResult(id) has returned true, getResult(id) finds nothing,
\* no bucket and no listing holds an entry of id, and the index holds no
\* empty bucket: a bucket the removal emptied is gone.
C13_DeletePrunes ==
  dpc = "idle" /\ dret = "true" /\ lastCall.op = "delete" /\ lastCall.id = did
    => /\ getResult(did) = NoRec
       /\ \A f \in Filenames : \A k \in DOMAIN getResultsByFilename(f) :
            getResultsByFilename(f)[k].id # did
       /\ EntriesOf(did) = <<>>
       /\ \A k \in DOMAIN index : index[k].items # <<>>

C13_Witness ==
  /\ dpc = "idle" /\ dret = "true" /\ lastCall.op = "delete" /\ lastCall.id = did
  /\ crec[did] # NoRec
  /\ ~HasBucket(index, crec[did].filename)
  /\ Len(index) = 1

\* C14 (as claimed): when a saveResult call has returned and no other store call has
\* begun since, getResult(id), the index entry of id and the entry in its
\* filename's list all equal the record passed to that call, whatever was
\* saved under the id before.
C14_UpsertReplaces ==
  ~StoreCallInProgress /\ lastCall.op = "save"
    => LET id == lastCall.id IN
         /\ getResult(id) = crec[id]
         /\ EntriesOf(id) = <<crec[id]>>
         /\ SelectSeq(getResultsByFilename(crec[id].filename), LAMBDA r : r.id = id)
              = <<crec[id]>>

NewestFirst(s) == \A a, b \in DOMAIN s : a < b => s[a].createdAt >= s[b].createdAt

\* C15: in every store state getResultsByFilename(f) is in non-increasing
\* createdAt order for every f, and getAllResults is in non-increasing
\* createdAt order and holds exactly the entries of all buckets.
C15_NewestFirst ==
  /\ \A f \in Filenames : NewestFirst(getResultsByFilename(f))
  /\ NewestFirst(getAllResults)
  /\ Len(getAllResults) = Len(Flatten(index))
  /\ \A k \in DOMAIN Flatten(index) :
       \E m \in DOMAIN getAllResults : getAllResults[m] = Flatten(index)[k]

C15_Witness ==
  /\ ~StoreCallInProgress /\ lastCall.op = "save"
  /\ \E f \in Filenames :
       LET l == getResultsByFilename(f) IN
         /\ Len(l) = 2
         /\ l[1].id = lastCall.id
         /\ l[1].status = "processing"
         /\ l[1].createdAt > l[2].createdAt

\* get(id) finds a record that the listings omit or show differently
Diverged(id) == getResult(id) # NoRec /\ EntriesOf(id) # <<getResult(id)>>

\* C16: the index is read, changed and rewritten by saveResult and
\* deleteResult in separate steps without a lock; a state where getResult(id)
\* returns a record that the listings omit or show with an older status is
\* reachable, and between orchestrations (which keep a job's filename) only
\* when store calls have overlapped.
C16_LostUpdateNeedsOverlap ==
  ~StoreCallInProgress /\ (\E id \in Ids : Diverged(id)) => overlapped

\* no delete was ever called: the two orchestrations alone lose an update
C16_Witness ==
  /\ ~StoreCallInProgress /\ dret = "none" /\ lastCall.op = "save"
  /\ getResult(1).status = "completed" /\ getResult(2).status = "completed"
  /\ EntriesOf(1) = <<getResult(1)>>
  /\ Len(EntriesOf(2)) = 1 /\ EntriesOf(2)[1].status = "processing"

\* the other case: the listings omit a record getResult finds
C16_WitnessOmitted ==
  /\ ~StoreCallInProgress /\ dret = "none" /\ lastCall.op = "save"
  /\ getResult(1).status = "completed" /\ getResult(2).status = "completed"
  /\ EntriesOf(1) = <<>>
  /\ EntriesOf(2) = <<getResult(2)>>

\* the number of entries e in the I/O history of call j
Count(j, e) == Len(SelectSeq(log[j], LAMBDA x : x = e))

\* C17: the submit request (extractInvoice, createTransaction, tools/call)
\* is sent at most once per job; when it has failed no status or result
\* request is sent, no second submit is sent, and the error is what the
\* caller gets (for processInvoice after the failed record is saved).
C17_SubmitOnce ==
  /\ submitCalls <= 1
  /\ submitCalls = 1 /\ attempt = 0
       => /\ apc = "done"
          /\ statusCalls = 0 /\ ~resultSent
          /\ aresponse.status = "error" /\ aresponse.error # Absent
          /\ akind = "txn" => aresponse.kind = "thrown"
  /\ \A j \in Jobs :
       /\ Count(j, "net:tools/call") <= 1
       /\ Count(j, "net:initialize") <= 1
       /\ Count(j, "readFile") <= 1
       /\ Has(j, "net:tools/call") /\ err[j] # Absent
            => /\ err[j] \in {ToolError(r) : r \in ToolResponses \ {"result", "empty"}}
               /\ log[j][Len(log[j])] \in {"net:tools/call", "write:failed", "saved:failed"}
               /\ pc[j] = "thrown" => outcome[j] = [kind |-> "thrown", value |-> err[j]]

C17_Witness ==
  /\ apc = "done" /\ akind = "txn" /\ submitCalls = 1 /\ attempt = 0
  /\ aresponse.kind = "thrown"
  /\ aresponse.error = "SmartSCan transaction creation failed: 500"

\* the extensions each polling adapter has a content type for
MappedTypes(kind) ==
  IF kind = "task" THEN {"pdf", "png", "jpg", "jpeg"} ELSE SmartScanSupportedTypes

\* C18 (as claimed): for a filename whose extension the adapter has no
\* content type for, the adapter call ends in an error and no network
\* request is sent.
C18_UnsupportedRejected ==
  akind # "none" /\ FileExtension(afile) \notin MappedTypes(akind)
    => /\ submitCalls = 0
       /\ submitted = "none"
       /\ apc = "done" => aresponse.status = "error"

\* C19 (as claimed): a request that is never answered is ended by a per-call
\* timeout, so with nothing assumed about the provider but that timers fire,
\* a call that has sent a request ends.
C19_HungRequestBounded ==
  (apc \in {"submit", "status", "result"}) ~> (apc = "done")

\* C20: each delay a polling adapter sleeps is at least the 3000 ms base, at
\* most the 10000 ms cap, and at least the delay it slept after the attempt
\* before.
C20_DelayMonotoneCapped ==
  apc = "sleep"
    => /\ delayMs >= BaseDelayMs
       /\ delayMs <= CapDelayMs
       /\ delayMs >= prevDelay
       /\ attempt \in 1..(maxAttempts(akind) - 1)

C20_Witness ==
  /\ apc = "sleep" /\ akind = "task" /\ attempt = 9
  /\ prevDelay = 7000 /\ delayMs = CapDelayMs

\* the schedule as claimed: base for attempts 1 to 4, then +1000 ms per
\* attempt up to the cap
ClaimedDelay(a) ==
  IF a <= 4 THEN 3000
  ELSE IF 3000 + (a - 4) * 1000 < 10000 THEN 3000 + (a - 4) * 1000
  ELSE 10000

\* C21 (as claimed): in both polling adapters the delay slept after attempt a
\* is 3000 ms for attempts 1 to 4 and grows by 1000 ms per attempt from
\* attempt 5 until it is 10000 ms.
C21_ClaimedSchedule == apc = "sleep" => delayMs = ClaimedDelay(attempt)

\* C21 (amended): the delay slept after attempt a is, in the Task-Poll
\* adapter, 3000 ms for attempts 1 to 4, 3000 + (a - 4) * 1000 ms for
\* attempts 5 to 8 and 10000 ms from attempt 9 on; in the Transaction-Poll
\* adapter, 3000 ms for attempt 1, 3000 + (a - 1) * 1000 ms for attempts 2 to
\* 7 and 10000 ms from attempt 8 on.
C21_DelaySchedule ==
  apc = "sleep"
    => delayMs =
         IF akind = "task"
         THEN CASE attempt \in 1..4 -> 3000
                [] attempt \in 5..8 -> 3000 + (attempt - 4) * 1000
                [] OTHER -> 10000
         ELSE CASE attempt = 1 -> 3000
                [] attempt \in 2..7 -> 3000 + (attempt - 1) * 1000
                [] OTHER -> 10000

C21_Witness ==
  /\ apc = "sleep" /\ akind = "task" /\ attempt = 9 /\ IsPending(lastResp)
  /\ delayMs = 10000 /\ prevDelay = 7000

\* C23: when a status check has reported done the next request is the result
\* fetch, with no sleep before it; when the result fetch has delivered the
\* payload the call has returned it: no status check, result fetch or sleep
\* follows.
C23_DoneReturnsAtOnce ==
  /\ IsDone(lastResp) => apc = "result" /\ delayMs = 0 /\ statusCalls = attempt
  /\ lastResp = "payload"
       => /\ apc = "done"
          /\ aresponse.success /\ aresponse.result \in Payloads
          /\ resultSent
          /\ statusCalls = attempt
          /\ sleptAfter < attempt
          /\ delayMs = 0

C23_Witness ==
  /\ apc = "done" /\ lastResp = "payload" /\ akind = "task"
  /\ attempt = 3 /\ statusCalls = 3 /\ sleptAfter = 2
  /\ aresponse.result = "P1"

\* C30: whatever a polling adapter sleeps, after a still-pending answer or
\* after a caught exception, is what both of its delay computations give for
\* that attempt.
C30_SameSchedule ==
  apc = "sleep"
    => /\ attempt < maxAttempts(akind)
       /\ delayMs = CatchDelay(akind, attempt)
       /\ delayMs = TryDelay(akind, attempt)

C30_Witness ==
  /\ apc = "sleep" /\ akind = "task" /\ attempt = 6
  /\ lastResp = "throw" /\ delayMs = 5000

\* C22: a POST /process-mcp request whose body lacks filename, configId,
\* clientInfo or one of clientInfo.businessId / name / country is answered
\* 400 before any store write, file read or adapter call: no job record
\* exists for it, and the rejected request is never taken up again.
C22_Rejected ==
  \A j \in Jobs :
    pc[j] = "rejected"
      => /\ outcome[j].kind = "response" /\ outcome[j].code = 400
         /\ log[j] = <<>>
         /\ rec[j] = NoRec /\ saving[j] = NoRec
         /\ getResult(j) = NoRec
         /\ \A r \in Persisted : r.id # j
         /\ requestId[j] = 0 /\ ~initialized[j]

C22_RejectedBeforeAnyEffect ==
  /\ []C22_Rejected
  /\ [][\A j \in Jobs : pc[j] = "rejected" => pc'[j] = "rejected" /\ log'[j] = <<>>]_vars

C22_Witness ==
  \E j \in Jobs :
    /\ pc[j] = "rejected"
    /\ outcome[j].value = "Missing required client info: businessId, name, country"
    /\ files[j] = NoRec /\ ~indexExists

\* a terminal record with the fields the transition is said to set put back
\* to their initial values
ResetOutcome(r) ==
  [r EXCEPT !.status = "processing", !.result = Absent, !.error = Absent,
            !.completedAt = Unset, !.duration = Unset]

\* C24 (as claimed): the terminal record of a job differs from its initial
\* record only in status, result / error, completedAt and duration.
C24_OnlyOutcomeFieldsDiffer ==
  \A j \in Jobs : \A r \in Persisted :
    r.id = j /\ r.status \in Terminal => ResetOutcome(r) = rec[j]

\* C24 (amended): the transition from processing to a terminal status leaves
\* id, filename, configId, clientInfo and createdAt unchanged; the terminal
\* record differs from the initial one only in status, result / error,
\* completedAt, duration and mcpResponse.
C24_TerminalFrame ==
  \A j \in Jobs : \A r \in Persisted :
    r.id = j /\ r.status \in Terminal
      => /\ r.filename = rec[j].filename /\ r.configId = rec[j].configId
         /\ r.clientInfo = rec[j].clientInfo /\ r.createdAt = rec[j].createdAt
         /\ rec[j].status = "processing"
         /\ [ResetOutcome(r) EXCEPT !.mcpResponse = Absent] = rec[j]

C24_Witness ==
  \E j \in Jobs :
    /\ pc[j] = "returned"
    /\ files[j].status = "completed" /\ files[j].mcpResponse \in Payloads
    /\ files[j].completedAt > files[j].createdAt
    /\ getResultsByFilename(rec[j].filename) = <<files[j]>>

\* C25: on one MCPClient instance every tools/call follows a successful
\* initialize; a failed initialize ends its callTool with a throw, sends no
\* tools/call and leaves the instance uninitialized; once an initialize has
\* succeeded no later callTool sends initialize again.
C25_InitializeOnce ==
  /\ \A k \in DOMAIN mLog :
       /\ mLog[k] = "net:tools/call"
            => \E i \in 1..(k - 1) : mLog[i] = "initialize:ok"
       /\ mLog[k] = "initialize:failed"
            => /\ k + 1 \in DOMAIN mLog
               /\ mLog[k + 1] \in {"throw:" \o InitializeError(r) :
                                     r \in InitializeResponses \ {"result"}}
               /\ k + 2 \in DOMAIN mLog => mLog[k + 2] = "callTool"
       /\ mLog[k] = "initialize:ok"
            => \A i \in DOMAIN mLog : i > k => mLog[i] # "net:initialize"
  /\ mInitialized <=> \E k \in DOMAIN mLog : mLog[k] = "initialize:ok"
  /\ mpc = "toolsCall" => mInitialized
  /\ mRequestId = Len(SelectSeq(mLog, LAMBDA e : e \in {"net:initialize", "net:tools/call"}))

C25_Witness ==
  /\ mpc = "idle" /\ mCalls = 3
  /\ mLog[3] = "initialize:failed"
  /\ Len(SelectSeq(mLog, LAMBDA e : e = "initialize:ok")) = 1
  /\ Len(SelectSeq(mLog, LAMBDA e : e = "net:tools/call")) = 2
  /\ Len(SelectSeq(mLog, LAMBDA e : e = "net:initialize")) = 2

\* C26 (as claimed): when the tools/call response holds a JSON-RPC error
\* object, processInvoice returns no result and the error it throws carries
\* the error object's message and its code.
C26_ErrorCarriesCode ==
  \A j \in Jobs :
    Has(j, "net:tools/call") /\ err[j] = ThrownToolError(RpcError).message
      => /\ pc[j] # "returned"
         /\ \A r \in Persisted : r.id = j => r.status # "completed"
         /\ "code" \in DOMAIN ThrownToolError(RpcError)
         /\ ThrownToolError(RpcError).code = RpcError.code

\* the ids a sequence of records holds
IdsOf(s) == {s[k].id : k \in DOMAIN s}

\* C27 (as claimed): each id is held by at most one filename bucket of the
\* index and getAllResults never returns two records of one id, also when
\* an id is saved a second time under another filename.
C27_OneBucketPerId ==
  /\ \A a, b \in DOMAIN index :
       a # b => IdsOf(index[a].items) \cap IdsOf(index[b].items) = {}
  /\ \A a, b \in DOMAIN getAllResults :
       a # b => getAllResults[a].id # getAllResults[b].id

\* C28 (as claimed): when every store call so far was awaited before the
\* next began, the ids getResult finds are the ids getAllResults returns, and
\* every record getAllResults returns equals what getResult finds for its id.
C28_FilesMatchIndex ==
  ~StoreCallInProgress
    => /\ {id \in Ids : getResult(id) # NoRec} = IdsOf(getAllResults)
       /\ \A k \in DOMAIN getAllResults :
            getAllResults[k] = getResult(getAllResults[k].id)

\* C29: when deleteResult(id) has unlinked the processing record of a job and
\* the job's completed record is saved afterwards, that saveResult writes the
\* record file and the index entry again: getResult(id) and
\* getResultsByFilename return the job although the delete succeeded.
C29_DeletedJobReturns ==
  \A id \in Clients :
    /\ ~StoreCallInProgress
    /\ removed[id] = "processing"
    /\ crec[id].status = "completed"
    => /\ getResult(id) = crec[id]
       /\ SelectSeq(getResultsByFilename(crec[id].filename), LAMBDA r : r.id = id)
            = <<crec[id]>>
       /\ EntriesOf(id) = <<crec[id]>>

C29_Witness ==
  \E id \in Clients :
    /\ ~StoreCallInProgress /\ lastCall.op = "save" /\ lastCall.id = id
    /\ did = id /\ dret = "true"
    /\ removed[id] = "processing"
    /\ crec[id].status = "completed"
    /\ getResult(id) = crec[id]
    /\ getResultsByFilename(crec[id].filename) = <<crec[id]>>

====
